---------------------------- MODULE Spec2Model ----------------------------
(***************************************************************************)
(* A model of api-extractor's DocItemLoader (src/api-extractor/src/        *)
(* DocItemLoader.ts): a loader instance, its package cache, the files     *)
(* under <projectFolder>/node_modules it reads, the three public methods   *)
(* getItem, getPackage and loadPackageIntoCache, and the constructor, by   *)
(* which a second loader of the same project folder is made.               *)
(*                                                                         *)
(* Strings the code takes apart (package names, scope names, paths, cache  *)
(* keys) are sequences of tokens: the separators "/" and "." are tokens of *)
(* their own, and a run of text without a separator is one token.  So      *)
(* path.join, path.basename and split('.') are computed, not assumed.      *)
(* Export and member names are only compared, and are TLA+ strings.  Every *)
(* JavaScript value is a record tagged by t, so that any two values can be *)
(* compared.                                                               *)
(***************************************************************************)
EXTENDS Naturals, Sequences, FiniteSets, TLC

\* Bound of the model: how many manifests one behaviour loads successfully.
MaxLoads == 2

-----------------------------------------------------------------------------
(* JavaScript values *)

Undefined == [t |-> "undefined"]

Str(s) == [t |-> "string", s |-> s]

IsString(v) == v.t = "string"

\* JavaScript truthiness of the values a reference field can hold:
\* undefined and the empty string are falsy.
Truthy(v) ==
    CASE v.t = "undefined" -> FALSE
      [] v.t = "string"    -> Len(v.s) > 0
      [] OTHER             -> TRUE

\* The property names every ordinary object inherits from Object.prototype
\* (one representative): the `in` operator sees them too.
ObjectPrototypeKeys == {"toString"}

\* Object.prototype[key]: a built-in function, which has no `members`.
Builtin(key) == [t |-> "builtin", name |-> key]

\* key in obj, obj an ordinary object held as a function from its own keys.
HasProperty(obj, key) == key \in DOMAIN obj \/ key \in ObjectPrototypeKeys

\* obj[key]
GetProperty(obj, key) ==
    IF key \in DOMAIN obj THEN obj[key]
    ELSE IF key \in ObjectPrototypeKeys THEN Builtin(key)
    ELSE Undefined

-----------------------------------------------------------------------------
(* Strings *)

RECURSIVE Concat(_)
\* The concatenation of a sequence of strings.
Concat(ss) == IF ss = <<>> THEN <<>> ELSE Head(ss) \o Concat(Tail(ss))

RECURSIVE SplitFrom(_, _, _)
\* s.split(sep) for a one-character sep: cur is the piece being read.
SplitFrom(s, sep, cur) ==
    IF s = <<>> THEN <<cur>>
    ELSE IF Head(s) = sep THEN <<cur>> \o SplitFrom(Tail(s), sep, <<>>)
    ELSE SplitFrom(Tail(s), sep, Append(cur, Head(s)))

Split(s, sep) == SplitFrom(s, sep, <<>>)

RECURSIVE JoinWith(_, _)
\* segs.join(sep)
JoinWith(segs, sep) ==
    IF segs = <<>> THEN <<>>
    ELSE IF Len(segs) = 1 THEN Head(segs)
    ELSE Head(segs) \o <<sep>> \o JoinWith(Tail(segs), sep)

RECURSIVE NormalizeSegments(_, _)
\* path.normalize on the segments of a relative path: empty and "."
\* segments are dropped, ".." removes the segment before it.
NormalizeSegments(segs, acc) ==
    IF segs = <<>> THEN acc
    ELSE LET h == Head(segs) IN
         IF h = <<>> \/ h = <<".">> THEN NormalizeSegments(Tail(segs), acc)
         ELSE IF h = <<".", ".">> /\ acc # <<>> /\ acc[Len(acc)] # <<".", ".">>
              THEN NormalizeSegments(Tail(segs), SubSeq(acc, 1, Len(acc) - 1))
         ELSE NormalizeSegments(Tail(segs), Append(acc, h))

\* path.join(...args) of strings: the non-empty arguments joined by "/",
\* then normalized.  (The project folder of the model is a relative path.)
PathJoin(args) ==
    LET nonEmpty == SelectSeq(args, LAMBDA a : a # <<>>)
    IN  JoinWith(NormalizeSegments(Split(JoinWith(nonEmpty, "/"), "/"), <<>>), "/")

\* path.basename(p): the text after the last "/".
Basename(p) == LET segs == Split(p, "/") IN segs[Len(segs)]

-----------------------------------------------------------------------------
(* The project, the references and the files of the model *)

\* The constructor's argument; the loader keeps it in _projectFolder.
projectFolder == <<"p">>

\* The package names references carry: none (the local package), two plain
\* names, and a name with a dot in it.
PackageNames == {<<>>, <<"f">>, <<"g">>, <<"g", ".", "b">>}

\* scopeName is optional: absent, empty, or a scope.
ScopeNames == {Undefined, Str(<<>>), Str(<<"@s">>)}

\* exportName: a class, a function, a name only Object.prototype has, and a
\* name nothing has.
ExportNames == {"Widget", "func", "toString", "nope"}

\* memberName is optional: absent, a member of Widget, a name only
\* Object.prototype has, and a name nothing has.
MemberNames == {Undefined, Str("render"), Str("toString"), Str("nope")}

\* IApiDefinitionReference
References ==
    [t : {"reference"}, scopeName : ScopeNames, packageName : {Str(n) : n \in PackageNames},
     exportName : ExportNames, memberName : MemberNames]

\* What getPackage reads of a reference (getPackage is public too).
PackageReferences ==
    {r \in References : r.exportName = "Widget" /\ r.memberName = Undefined}

\* The references item resolution is checked on: every export and member
\* name, on package f under every scopeName.
ItemReferences == {r \in References : r.packageName = Str(<<"f">>)}

NodeModules == <<"node_modules">>

\* `dist/${packageName}.api.json`
DistFile(packageName) ==
    Concat(<< <<"dist", "/">>, packageName, <<".", "api", ".", "json">> >>)

\* path.join(__dirname, './schemas/api-json-schema.json'): the bundled schema.
SchemaPath == <<"__dirname", "/", "schemas", "/", "api-json-schema", ".", "json">>

\* The manifest files of the model: of packages f, @s/f and g.b (package g
\* is not installed).
ManifestPath(sc, n) == PathJoin(<<projectFolder, NodeModules, sc, n, DistFile(n)>>)

Files ==
    {ManifestPath(<<>>, <<"f">>), ManifestPath(<<"@s">>, <<"f">>),
     ManifestPath(<<>>, <<"g", ".", "b">>)}

\* What a file can hold: nothing (it does not exist), a conformant manifest
\* (two revisions), a manifest with no exports section, text that is no JSON.
Contents == {"none", "good1", "good2", "noexports", "garbage"}

\* The manifest of package f takes every content; the manifests of the two
\* other packages are conformant or missing.
ContentsOf(f) ==
    IF f = ManifestPath(<<>>, <<"f">>) THEN Contents ELSE {"none", "good1"}

\* The exports section of a conformant manifest, revision rev: a class with
\* one member, and a function, which carries no members.
ExportsOf(rev) ==
    [e \in {"Widget", "func"} |->
        IF e = "Widget"
        THEN [t |-> "item", kind |-> "class", rev |-> rev, name |-> <<"Widget">>,
              members |-> [m \in {"render"} |->
                  [t |-> "item", kind |-> "method", rev |-> rev,
                   name |-> <<"Widget", "render">>]]]
        ELSE [t |-> "item", kind |-> "function", rev |-> rev, name |-> <<"func">>]]

\* JsonFile.loadJsonFile's parse of a file's text: the document, or
\* Undefined where the text is no JSON.
Parse(content) ==
    CASE content = "good1"     -> [t |-> "document", kind |-> "package", exports |-> ExportsOf(1)]
      [] content = "good2"     -> [t |-> "document", kind |-> "package", exports |-> ExportsOf(2)]
      [] content = "noexports" -> [t |-> "document", kind |-> "package"]
      [] OTHER                 -> Undefined

\* JsonFile.validateSchema against api-json-schema.json: a package object
\* with a keyed exports section.
Conforms(doc) == "exports" \in DOMAIN doc

-----------------------------------------------------------------------------
(* The loader's methods, as functions of the cache and the files *)

Return(v) == [kind |-> "return", value |-> v]

Throw(e) == [kind |-> "throw", value |-> e]

\* What a call did: how it ended, the messages it handed to reportError,
\* the keys it looked up in the cache, its filesystem accesses (each with
\* what it gave), the cache it left, and the package it got (from the cache
\* or from a load).
Effect(outcome, reports, lookups, fsLog, c, docPackage) ==
    [outcome |-> outcome, reports |-> reports, lookups |-> lookups, fsLog |-> fsLog,
     cache |-> c, docPackage |-> docPackage]

Message(text, arg) == [t |-> "string", text |-> text, arg |-> arg]

Error(name, text, detail) == [t |-> "error", name |-> name, text |-> text, detail |-> detail]

FileContent(files, path) == IF path \in DOMAIN files THEN files[path] ELSE "none"

\* this._cache.set(key, value)
CacheSet(c, key, value) ==
    [k \in DOMAIN c \cup {key} |-> IF k = key THEN value ELSE c[k]]

\* A faulty cachePackageName: the package name alone, without the scope.
cachePackageName_unscoped(ref) == ref.packageName.s

\* The cache key getPackage looks up.
cachePackageName(ref) ==
    IF Truthy(ref.scopeName)
    THEN Concat(<<ref.scopeName.s, <<"/">>, ref.packageName.s>>)
    ELSE ref.packageName.s

\* A faulty packageName: the basename without its last extension only.
packageName_lastExtensionOnly(packageJsonFilePath) ==
    LET base == Basename(packageJsonFilePath)
    IN  SubSeq(base, 1, Len(base) - 2)

\* The key loadPackageIntoCache stores under:
\* path.basename(packageJsonFilePath).split('.').shift()
packageName(packageJsonFilePath) == Head(Split(Basename(packageJsonFilePath), "."))

\* A faulty validationCallback: it logs, and does not throw.
validationCallback_logsOnly(errorDetail) == Return(Undefined)

\* The callback loadPackageIntoCache hands to JsonFile.validateSchema: it
\* logs and throws.
validationCallback(errorDetail) ==
    Throw(Error("Error",
        "ApiJsonGenerator validation error - output does not conform to api-json-schema.json:",
        errorDetail))

\* JsonFile.loadJsonFile on a file that is missing or holds no JSON throws.
loadJsonFileError(path, content) ==
    Throw(Error("Error", IF content = "none" THEN "file not found" ELSE "parse error", path))

\* The document a package object is: the parse of the text it was read from.
DocOf(docPackage) == Parse(docPackage.content)

\* A faulty loadPackageIntoCache: it stores what it parsed without
\* validating it.
loadPackageIntoCache_unvalidated(c, files, id, packageJsonFilePath) ==
    LET content == FileContent(files, packageJsonFilePath)
        read1 == << <<"read", packageJsonFilePath, content>> >>
        docPackage == [t |-> "package", id |-> id, source |-> packageJsonFilePath,
                       content |-> content]
    IN  IF Parse(content) = Undefined
        THEN Effect(loadJsonFileError(packageJsonFilePath, content), <<>>, <<>>, read1, c,
                    Undefined)
        ELSE Effect(Return(docPackage), <<>>, <<>>, read1,
                    CacheSet(c, packageName(packageJsonFilePath), docPackage), docPackage)

\* loadPackageIntoCache(packageJsonFilePath), with id the identity of the
\* object the parse creates.  A package is held as its identity, the path
\* and the text it was parsed from.
loadPackageIntoCache(c, files, id, packageJsonFilePath) ==
    LET content == FileContent(files, packageJsonFilePath)
        apiPackage == Parse(content)
        read1 == << <<"read", packageJsonFilePath, content>> >>
        read2 == Append(read1, <<"read", SchemaPath, "schema">>)
        docPackage == [t |-> "package", id |-> id, source |-> packageJsonFilePath,
                       content |-> content]
        verdict == IF Conforms(apiPackage) THEN Return(Undefined)
                   ELSE validationCallback("exports")
    IN  IF apiPackage = Undefined
        THEN Effect(loadJsonFileError(packageJsonFilePath, content), <<>>, <<>>, read1, c,
                    Undefined)
        ELSE IF verdict.kind = "throw"
        THEN Effect(verdict, <<>>, <<>>, read2, c, Undefined)
        ELSE Effect(Return(docPackage), <<>>, <<>>, read2,
                    CacheSet(c, packageName(packageJsonFilePath), docPackage), docPackage)

\* A faulty localResolution: no early return, so the existence of a manifest
\* is checked under an empty package name and reported missing.
localResolution_probesDisk(c, ref) ==
    Effect(Return(Undefined),
           << Message("@inheritdoc referenced package (\"${packageName}\") not found in node modules.",
                      ref.packageName.s) >>,
           <<cachePackageName(ref)>>,
           << <<"exists", PathJoin(<<projectFolder, NodeModules, DistFile(<<>>)>>), "false">> >>,
           c, Undefined)

\* getPackage on an empty packageName: local resolution is not supported.
localResolution(c, ref) ==
    Effect(Return(Undefined), <<>>, <<cachePackageName(ref)>>, <<>>, c, Undefined)

\* A faulty packageNotFound: undefined, and nothing reported.
packageNotFound_silent(c, ref, packageJsonFilePath) ==
    Effect(Return(Undefined), <<>>, <<cachePackageName(ref)>>,
           << <<"exists", packageJsonFilePath, "false">> >>, c, Undefined)

\* getPackage where the manifest does not exist: reported, and undefined.
packageNotFound(c, ref, packageJsonFilePath) ==
    Effect(Return(Undefined),
           << Message("@inheritdoc referenced package (\"${packageName}\") not found in node modules.",
                      ref.packageName.s) >>,
           <<cachePackageName(ref)>>, << <<"exists", packageJsonFilePath, "false">> >>, c,
           Undefined)

\* The arguments of getPackage's path.join.
packageJsonFilePathArgs(ref) ==
    <<Str(projectFolder), Str(NodeModules), ref.scopeName, ref.packageName,
      Str(DistFile(ref.packageName.s))>>

\* getPackage(apiDefinitionRef, reportError)
getPackage(c, files, id, ref) ==
    LET key == cachePackageName(ref)
        args == packageJsonFilePathArgs(ref)
        packageJsonFilePath == PathJoin([i \in DOMAIN args |-> args[i].s])
        loaded == loadPackageIntoCache(c, files, id, packageJsonFilePath)
    IN  IF key \in DOMAIN c
        THEN Effect(Return(c[key]), <<>>, <<key>>, <<>>, c, c[key])
        ELSE IF ~Truthy(ref.packageName)
        THEN localResolution(c, ref)
        ELSE IF \E i \in DOMAIN args : ~IsString(args[i])
        THEN Effect(Throw(Error("TypeError", "Path must be a string", <<>>)),
                    <<>>, <<key>>, <<>>, c, Undefined)
        ELSE IF FileContent(files, packageJsonFilePath) = "none"
        THEN packageNotFound(c, ref, packageJsonFilePath)
        ELSE Effect(loaded.outcome, <<>>, <<key>>,
                    << <<"exists", packageJsonFilePath, "true">> >> \o loaded.fsLog,
                    loaded.cache,
                    loaded.docPackage)

\* The export and member lookup of getItem, on the package getPackage gave.
resolveItem(docPackage, ref) ==
    LET exports == GetProperty(DocOf(docPackage), "exports")
        docItem == GetProperty(exports, ref.exportName)
        members == GetProperty(docItem, "members")
    IN  IF exports = Undefined
        THEN Throw(Error("TypeError", "Cannot use 'in' operator", <<>>))
        ELSE IF ~HasProperty(exports, ref.exportName) THEN Return(Undefined)
        ELSE IF ~Truthy(ref.memberName) THEN Return(docItem)
        ELSE IF members = Undefined
        THEN Throw(Error("TypeError", "Cannot use 'in' operator", <<>>))
        ELSE IF HasProperty(members, ref.memberName.s)
        THEN Return(GetProperty(members, ref.memberName.s))
        ELSE Return(Undefined)

\* A faulty missingReference: no early return, so getPackage reads a field
\* of undefined.
missingReference_dereferences(c) ==
    Effect(Throw(Error("TypeError", "Cannot read property 'scopeName' of undefined", <<>>)),
           << Message("Expected reference within {@inheritdoc} tag", <<>>) >>,
           <<>>, <<>>, c, Undefined)

\* getItem without a reference: reported, and undefined.
missingReference(c) ==
    Effect(Return(Undefined), << Message("Expected reference within {@inheritdoc} tag", <<>>) >>,
           <<>>, <<>>, c, Undefined)

\* A faulty getItem: it catches what getPackage throws, and returns undefined.
getItem_swallowsLoadError(c, files, id, ref) ==
    LET got == getPackage(c, files, id, ref)
    IN  IF ref = Undefined THEN missingReference(c)
        ELSE IF got.outcome.kind = "throw" THEN [got EXCEPT !.outcome = Return(Undefined)]
        ELSE IF got.outcome.value = Undefined THEN got
        ELSE [got EXCEPT !.outcome = resolveItem(got.outcome.value, ref)]

\* A faulty getItem: it reports every reference it got no package for,
\* whatever getPackage reported.
getItem_reportsNoPackage(c, files, id, ref) ==
    LET got == getPackage(c, files, id, ref)
    IN  IF ref = Undefined THEN missingReference(c)
        ELSE IF got.outcome.kind = "throw" THEN got
        ELSE IF got.outcome.value = Undefined
        THEN [got EXCEPT !.reports = Append(@, Message("Unable to resolve reference", <<>>))]
        ELSE [got EXCEPT !.outcome = resolveItem(got.outcome.value, ref)]

\* getItem(apiDefinitionRef, reportError)
getItem(c, files, id, ref) ==
    LET got == getPackage(c, files, id, ref)
    IN  IF ref = Undefined THEN missingReference(c)
        ELSE IF got.outcome.kind = "throw" THEN got
        ELSE IF got.outcome.value = Undefined THEN got
        ELSE [got EXCEPT !.outcome = resolveItem(got.outcome.value, ref)]

-----------------------------------------------------------------------------
(* The state *)

VARIABLES
    cache,          \* this._cache: key -> package
    fs,             \* the manifest files: path -> content
    constructed,    \* the source path of every package loaded, oldest first
    last,           \* the last call made, and what it did
    projectMarker,  \* whether <projectFolder>/package.json exists
    other           \* a second loader of the same project folder, once constructed

vars == <<cache, fs, constructed, last, projectMarker, other>>

\* The second loader before `new DocItemLoader(projectFolder)` gave it, and
\* after: an instance with a _cache of its own.
NoInstance == [t |-> "none"]

Instance(c) == [t |-> "loader", cache |-> c]

\* path.join(projectFolder, 'package.json')
MarkerPath == PathJoin(<<projectFolder, <<"package", ".", "json">> >>)

NoCall ==
    [op |-> "none", loader |-> 1, arg |-> Undefined, outcome |-> Return(Undefined),
     reports |-> <<>>, lookups |-> <<>>, fsLog |-> <<>>, cacheBefore |-> <<>>,
     docPackage |-> Undefined]

\* After construction: the marker file was there, the cache is empty (and,
\* here, node_modules is empty and no second loader was made).
Init ==
    /\ cache = <<>>
    /\ fs = [f \in Files |-> "none"]
    /\ constructed = <<>>
    /\ last = NoCall
    /\ projectMarker = TRUE
    /\ other = NoInstance

\* The state after a call that did e: the cache e left, and the package it
\* loaded (if it stored one) added to constructed.
Apply(op, arg, e) ==
    LET stored == e.cache # cache
    IN  /\ Len(constructed) + (IF stored THEN 1 ELSE 0) <= MaxLoads
        /\ cache' = e.cache
        /\ constructed' = IF stored THEN Append(constructed, e.docPackage.source)
                          ELSE constructed
        /\ last' = [op |-> op, loader |-> 1, arg |-> arg, outcome |-> e.outcome,
                    reports |-> e.reports, lookups |-> e.lookups, fsLog |-> e.fsLog,
                    cacheBefore |-> cache, docPackage |-> e.docPackage]
        /\ UNCHANGED <<fs, projectMarker, other>>

\* A caller resolves one of refs (or passes no reference).
GetItemOver(refs) ==
    \E ref \in refs \cup {Undefined} :
        Apply("getItem", ref, getItem(cache, fs, Len(constructed) + 1, ref))

\* A caller asks for the package of one of refs.
GetPackageOver(refs) ==
    \E ref \in refs :
        Apply("getPackage", ref, getPackage(cache, fs, Len(constructed) + 1, ref))

CallGetPackage == GetPackageOver(PackageReferences)

\* A caller loads a manifest by its path.
CallLoadPackageIntoCache ==
    \E path \in Files :
        Apply("loadPackageIntoCache", Str(path),
              loadPackageIntoCache(cache, fs, Len(constructed) + 1, path))

\* The environment writes, rewrites or removes a manifest file, between calls.
WriteOver(contents) ==
    \E f \in Files, content \in contents :
        /\ content \in ContentsOf(f)
        /\ fs[f] # content
        /\ fs' = [fs EXCEPT ![f] = content]
        /\ UNCHANGED <<cache, constructed, last, projectMarker, other>>

\* The loader and its packages: every file content, and getItem on the
\* references getPackage takes.
CallGetItem == GetItemOver(PackageReferences)

WriteFile == WriteOver(Contents)

Next == CallGetItem \/ CallGetPackage \/ CallLoadPackageIntoCache \/ WriteFile

Spec == Init /\ [][Next]_vars

\* The same without direct loads: getItem and getPackage calls only.
NextCalls == CallGetItem \/ CallGetPackage \/ WriteFile

SpecCalls == Init /\ [][NextCalls]_vars

\* Item resolution: getItem on every reference to package f (scoped or
\* not), over manifests that are conformant or missing.
CallGetItemAny == GetItemOver(ItemReferences)

WriteManifest == WriteOver({"none", "good1"})

NextItem == CallGetItemAny \/ WriteManifest

SpecItem == Init /\ [][NextItem]_vars

\* A faulty constructor: it does not look for package.json.
constructor_unchecked(markerExists) ==
    Effect(Return(Instance(<<>>)), <<>>, <<>>, <<>>, <<>>, Undefined)

\* new DocItemLoader(projectFolder): it throws where the folder has no
\* package.json, and gives an instance with an empty _cache where it has.
constructor(markerExists) ==
    LET check == <<"exists", MarkerPath, IF markerExists THEN "true" ELSE "false">>
    IN  IF ~markerExists
        THEN Effect(Throw(Error("Error",
                        "An NPM project was not found in the specified folder: ${projectFolder}",
                        projectFolder)),
                    <<>>, <<>>, <<check>>, <<>>, Undefined)
        ELSE Effect(Return(Instance(<<>>)), <<>>, <<>>, <<check>>, <<>>, Undefined)

\* A caller constructs a second loader of the project folder.  Where the
\* constructor throws, the caller has no instance.
Construct ==
    LET e == constructor(projectMarker)
    IN  /\ other = NoInstance
        /\ other' = IF e.outcome.kind = "return" THEN e.outcome.value ELSE NoInstance
        /\ last' = [op |-> "constructor", loader |-> 2, arg |-> Str(projectFolder),
                    outcome |-> e.outcome, reports |-> e.reports, lookups |-> e.lookups,
                    fsLog |-> e.fsLog, cacheBefore |-> <<>>, docPackage |-> Undefined]
        /\ UNCHANGED <<cache, fs, constructed, projectMarker>>

\* The environment removes or restores <projectFolder>/package.json.
WriteMarker ==
    /\ projectMarker' = ~projectMarker
    /\ UNCHANGED <<cache, fs, constructed, last, other>>

\* A faulty ApplyOther: one cache for every instance (a static _cache), so a
\* store by the second loader shows in the first.
ApplyOther_sharedCache(op, arg, e) ==
    LET stored == e.cache # other.cache
    IN  /\ Len(constructed) + (IF stored THEN 1 ELSE 0) <= MaxLoads
        /\ other' = Instance(e.cache)
        /\ cache' = e.cache
        /\ constructed' = IF stored THEN Append(constructed, e.docPackage.source)
                          ELSE constructed
        /\ last' = [op |-> op, loader |-> 2, arg |-> arg, outcome |-> e.outcome,
                    reports |-> e.reports, lookups |-> e.lookups, fsLog |-> e.fsLog,
                    cacheBefore |-> other.cache, docPackage |-> e.docPackage]
        /\ UNCHANGED <<fs, projectMarker>>

\* The state after a call on the second loader that did e: as Apply, on the
\* second loader's own _cache.
ApplyOther(op, arg, e) ==
    LET stored == e.cache # other.cache
    IN  /\ Len(constructed) + (IF stored THEN 1 ELSE 0) <= MaxLoads
        /\ other' = Instance(e.cache)
        /\ constructed' = IF stored THEN Append(constructed, e.docPackage.source)
                          ELSE constructed
        /\ last' = [op |-> op, loader |-> 2, arg |-> arg, outcome |-> e.outcome,
                    reports |-> e.reports, lookups |-> e.lookups, fsLog |-> e.fsLog,
                    cacheBefore |-> other.cache, docPackage |-> e.docPackage]
        /\ UNCHANGED <<cache, fs, projectMarker>>

\* The references the two loaders are called on: package f, under every
\* scopeName.
LoaderReferences == PackageReferences \cap ItemReferences

OtherGetItem ==
    /\ other # NoInstance
    /\ \E ref \in LoaderReferences \cup {Undefined} :
          ApplyOther("getItem", ref, getItem(other.cache, fs, Len(constructed) + 1, ref))

OtherGetPackage ==
    /\ other # NoInstance
    /\ \E ref \in LoaderReferences :
          ApplyOther("getPackage", ref, getPackage(other.cache, fs, Len(constructed) + 1, ref))

OtherLoadPackageIntoCache ==
    /\ other # NoInstance
    /\ \E path \in Files :
          ApplyOther("loadPackageIntoCache", Str(path),
                     loadPackageIntoCache(other.cache, fs, Len(constructed) + 1, path))

FirstGetPackage == GetPackageOver(LoaderReferences)

\* Two loaders of one project folder: the one of Init, and a second one a
\* caller constructs; the marker file comes and goes.
NextLoaders ==
    \/ Construct \/ WriteMarker
    \/ OtherGetItem \/ OtherGetPackage \/ OtherLoadPackageIntoCache
    \/ FirstGetPackage
    \/ WriteManifest

SpecLoaders == Init /\ [][NextLoaders]_vars

-----------------------------------------------------------------------------
(* What the claims read of the last call *)

ByReference == last.op \in {"getItem", "getPackage"} /\ last.arg # Undefined

\* The next state is the state after a call of getPackage or getItem.
CallStep == fs' = fs /\ last'.op \in {"getItem", "getPackage"}

\* The call was answered from the cache.
ServedFromCache(call) ==
    call.lookups # <<>> /\ call.lookups[1] \in DOMAIN call.cacheBefore

\* The call checked the existence of a manifest, and it did not exist.
ExistenceCheckFailed(call) ==
    \E i \in DOMAIN call.fsLog : call.fsLog[i][1] = "exists" /\ call.fsLog[i][3] = "false"

\* The call read a manifest that parses and violates the schema.
ReadNonConformant(call) ==
    \E i \in DOMAIN call.fsLog :
        /\ call.fsLog[i][1] = "read"
        /\ Parse(call.fsLog[i][3]) # Undefined
        /\ ~Conforms(Parse(call.fsLog[i][3]))

\* The manifest path the specification gives a reference:
\* <projectRoot>/node_modules/<scopeName>/<packageName>/dist/<packageName>.api.json
SpecifiedPath(ref) ==
    ManifestPath(IF ref.scopeName = Undefined THEN <<>> ELSE ref.scopeName.s,
                 ref.packageName.s)

NotFoundMessage(ref) ==
    Message("@inheritdoc referenced package (\"${packageName}\") not found in node modules.",
            ref.packageName.s)

-----------------------------------------------------------------------------
(* The claims *)

\* C1 (as claimed): over getItem and getPackage calls, no manifest is loaded
\* into a second DocPackage instance, and a call with the reference of the
\* call before it, which got a package, gets the very same instance.
C1_OneInstancePerIdentity ==
    [][ /\ \A i, j \in DOMAIN constructed' : constructed'[i] = constructed'[j] => i = j
        /\ (CallStep /\ ByReference /\ last.docPackage # Undefined /\ last'.arg = last.arg)
              => last'.docPackage = last.docPackage ]_vars

\* C2 (as claimed): a getPackage that follows a successful getPackage of the
\* same reference, whatever was written to the files in between, returns the
\* same instance and accesses no file.
C2_SecondCallIsCacheHit ==
    [][ (/\ fs' = fs
         /\ last.op = "getPackage" /\ last.outcome.kind = "return"
         /\ last.outcome.value # Undefined
         /\ last'.op = "getPackage" /\ last'.arg = last.arg)
        => (last'.outcome = last.outcome /\ last'.fsLog = <<>>) ]_vars

ExportsGot == DocOf(last.docPackage).exports

\* The last call was getItem on a reference, and getPackage gave it a package.
ItemLookup == last.op = "getItem" /\ last.arg # Undefined /\ last.docPackage # Undefined

\* C4 (as claimed): getItem on a non-local reference that names an export
\* without a members mapping, and gives a memberName, returns undefined,
\* raises nothing and reports nothing.
C4_NonClassMemberUndefined ==
    (/\ ItemLookup /\ Truthy(last.arg.packageName)
     /\ last.arg.exportName \in DOMAIN ExportsGot
     /\ "members" \notin DOMAIN ExportsGot[last.arg.exportName]
     /\ Truthy(last.arg.memberName))
        => (last.outcome = Return(Undefined) /\ last.reports = <<>>)

\* C5 (as claimed): with exports[E] present, getItem returns members[M]
\* where the members of exports[E] hold M, undefined where exports[E] is
\* class-like and its members lack M, and exports[E] where no memberName is
\* given.
C5_ExportThenMember ==
    (ItemLookup /\ last.arg.exportName \in DOMAIN ExportsGot)
        => LET docItem == ExportsGot[last.arg.exportName]
               M == last.arg.memberName
           IN  /\ (Truthy(M) /\ "members" \in DOMAIN docItem
                   /\ M.s \in DOMAIN docItem.members)
                      => last.outcome = Return(docItem.members[M.s])
               /\ (Truthy(M) /\ "members" \in DOMAIN docItem
                   /\ M.s \notin DOMAIN docItem.members)
                      => last.outcome = Return(Undefined)
               /\ ~Truthy(M) => last.outcome = Return(docItem)

\* C6 (as claimed): getItem on an exportName that is no key of the package's
\* exports returns undefined and reports nothing, with or without a
\* memberName.
C6_AbsentExportUndefined ==
    (ItemLookup /\ last.arg.exportName \notin DOMAIN ExportsGot)
        => (last.outcome = Return(Undefined) /\ last.reports = <<>>)

\* C7 (as claimed): a getPackage call on a non-empty packageName that the
\* cache does not answer, the reference's manifest missing from the disk,
\* reports the not-found message of the package once, returns undefined and
\* leaves the cache as it was.
C7_MissingManifestReportedOnce ==
    [][ (/\ fs' = fs /\ last'.op = "getPackage"
         /\ Truthy(last'.arg.packageName)
         /\ ~ServedFromCache(last')
         /\ FileContent(fs, SpecifiedPath(last'.arg)) = "none")
        => (/\ last'.reports = <<NotFoundMessage(last'.arg)>>
            /\ last'.outcome = Return(Undefined)
            /\ cache' = cache) ]_vars

\* C8: getItem without a reference reports 'Expected reference within
\* {@inheritdoc} tag' once, returns undefined (it does not raise), looks
\* nothing up in the cache, accesses no file and leaves the cache as it was.
C8_MissingReferenceReported ==
    (last.op = "getItem" /\ last.arg = Undefined)
        => /\ last.reports = << Message("Expected reference within {@inheritdoc} tag", <<>>) >>
           /\ last.outcome = Return(Undefined)
           /\ last.lookups = <<>>
           /\ last.fsLog = <<>>
           /\ cache = last.cacheBefore

\* C8's case: getItem without a reference, on a loader whose cache holds a
\* package.
C8_Witness ==
    last.op = "getItem" /\ last.arg = Undefined /\ DOMAIN cache # {}

\* The three conditions of C9, read off the last call.
MissingReference == last.op = "getItem" /\ last.arg = Undefined

PackageNotFound == ByReference /\ ExistenceCheckFailed(last)

LocalRequested == ByReference /\ ~Truthy(last.arg.packageName)

C10_SchemaViolationFatal ==
    ReadNonConformant(last)
        => /\ last.outcome.kind = "throw"
           /\ last.outcome.value.text =
                  "ApiJsonGenerator validation error - output does not conform to api-json-schema.json:"
           /\ last.reports = <<>>
           /\ cache = last.cacheBefore

\* C10's case: getItem reached a manifest with no exports section.
C10_Witness == last.op = "getItem" /\ ReadNonConformant(last)

\* C11: every package the cache holds passed schema validation, and the
\* package getItem indexes (exports, members), fresh from a load or taken
\* from the cache, passed it too.
C11_SchemaGate ==
    /\ \A k \in DOMAIN cache : Conforms(DocOf(cache[k]))
    /\ ItemLookup => Conforms(DocOf(last.docPackage))

\* C11's case: getItem indexed a package it took from the cache, while the
\* manifest on disk no longer conforms.
C11_Witness ==
    /\ ItemLookup /\ ServedFromCache(last)
    /\ ~Conforms(Parse(FileContent(fs, last.docPackage.source)))

\* The call read a manifest that does not parse, or violates the schema.
FatalLoad(call) ==
    \E i \in DOMAIN call.fsLog :
        /\ call.fsLog[i][1] = "read" /\ call.fsLog[i][2] # SchemaPath
        /\ ~Conforms(Parse(call.fsLog[i][3]))

\* C12: a call whose load fails (the manifest does not parse, or violates
\* the schema) throws, through getPackage and getItem too, reports nothing
\* and leaves the cache as it was; and the same call made again next,
\* whatever was written to the files in between, is not answered from the
\* cache: it goes to the disk again.
C12_FatalLoadLeavesCache ==
    [][ /\ FatalLoad(last')
           => /\ last'.outcome.kind = "throw"
              /\ last'.reports = <<>>
              /\ cache' = cache
        /\ (/\ fs' = fs /\ FatalLoad(last)
            /\ last'.op = last.op /\ last'.arg = last.arg)
           => (~ServedFromCache(last') /\ last'.fsLog # <<>>) ]_vars

\* C12's case: getItem threw on a manifest that does not parse.
C12_Witness ==
    /\ last.op = "getItem" /\ FatalLoad(last)
    /\ \E i \in DOMAIN last.fsLog :
          last.fsLog[i][1] = "read" /\ Parse(last.fsLog[i][3]) = Undefined

\* The next state is the state after `new DocItemLoader(projectFolder)`.
ConstructStep ==
    /\ fs' = fs /\ projectMarker' = projectMarker
    /\ other = NoInstance /\ last'.op = "constructor"

\* C13: constructing a loader of a project folder without package.json
\* throws and gives no instance; with package.json there, it gives an
\* instance whose cache is empty; and no getItem, getPackage or
\* loadPackageIntoCache call looks for package.json.
C13_MarkerCheckedAtConstruction ==
    [][ /\ (ConstructStep /\ ~projectMarker)
           => /\ last'.outcome.kind = "throw"
              /\ last'.outcome.value.text =
                     "An NPM project was not found in the specified folder: ${projectFolder}"
              /\ other' = NoInstance
        /\ (ConstructStep /\ projectMarker)
           => (last'.outcome.kind = "return" /\ other' = Instance(<<>>))
        /\ last'.op \in {"getItem", "getPackage", "loadPackageIntoCache"}
           => \A i \in DOMAIN last'.fsLog : last'.fsLog[i][2] # MarkerPath ]_vars

\* C13's case: the constructor threw on a folder whose package.json was
\* removed, the first loader holding a package.
C13_Witness ==
    /\ last.op = "constructor" /\ last.outcome.kind = "throw"
    /\ ~projectMarker /\ other = NoInstance /\ DOMAIN cache # {}

\* C14 (as claimed): the package getPackage returns was loaded from the
\* manifest path of the reference it was asked for.
C14_OwnManifestOnly ==
    (/\ last.op = "getPackage" /\ last.outcome.kind = "return"
     /\ last.outcome.value # Undefined)
        => last.outcome.value.source = SpecifiedPath(last.arg)

BeforeFirstDot(k, base) ==
    \E n \in 0..Len(base) :
        /\ k = SubSeq(base, 1, n)
        /\ \A i \in 1..n : base[i] # "."
        /\ n < Len(base) => base[n + 1] = "."

\* C16: a call that read a manifest (loadPackageIntoCache, or getPackage or
\* getItem on a cache miss) and did not throw made a package that passed
\* validation, stored it under the manifest's basename before its first
\* '.', changed no other entry of the cache and, getItem apart, returned
\* that very package; a call that read a manifest and threw stored nothing.
C16_StoredUnderBasenameStem ==
    \A i \in DOMAIN last.fsLog :
        (last.fsLog[i][1] = "read" /\ last.fsLog[i][2] # SchemaPath)
            => IF last.outcome.kind = "throw"
               THEN cache = last.cacheBefore
               ELSE /\ last.docPackage # Undefined
                    /\ last.docPackage.source = last.fsLog[i][2]
                    /\ Conforms(DocOf(last.docPackage))
                    /\ last.op # "getItem" => last.outcome = Return(last.docPackage)
                    /\ \E k \in DOMAIN cache :
                          /\ BeforeFirstDot(k, Basename(last.fsLog[i][2]))
                          /\ cache[k] = last.docPackage
                          /\ DOMAIN cache = DOMAIN last.cacheBefore \cup {k}
                          /\ \A x \in DOMAIN last.cacheBefore \ {k} :
                                cache[x] = last.cacheBefore[x]

\* C16's case: loadPackageIntoCache stored the manifest of g.b (basename
\* g.b.api.json) in a cache that held a package under another key.
C16_Witness ==
    /\ last.op = "loadPackageIntoCache" /\ last.outcome.kind = "return"
    /\ last.arg = Str(ManifestPath(<<>>, <<"g", ".", "b">>))
    /\ DOMAIN last.cacheBefore # {}
    /\ DOMAIN cache # DOMAIN last.cacheBefore

\* C17 (as claimed): over getItem and getPackage calls, a key the cache
\* holds stays, mapped to the same package; and a call answered from the
\* cache, or one that got no package, leaves the cache as it was.
C17_NeverEvicts ==
    [][ /\ \A k \in DOMAIN cache : k \in DOMAIN cache' /\ cache'[k] = cache[k]
        /\ (/\ fs' = fs /\ last'.op \in {"getItem", "getPackage"}
            /\ (ServedFromCache(last') \/ last'.docPackage = Undefined))
           => cache' = cache ]_vars

\* C18 (as claimed): a getPackage call on a non-empty packageName that the
\* cache does not answer checks the existence of the reference's manifest
\* path (without a scope segment where scopeName is absent or empty) first,
\* accesses no other manifest, and raises nothing but the error of a load
\* that fails.
C18_ManifestPathOnly ==
    (/\ last.op = "getPackage" /\ Truthy(last.arg.packageName)
     /\ ~ServedFromCache(last))
        => LET log == last.fsLog
               path == SpecifiedPath(last.arg)
           IN  /\ Len(log) >= 1
               /\ log[1][1] = "exists" /\ log[1][2] = path
               /\ \A i \in DOMAIN log : log[i][2] \in {path, SchemaPath}
               /\ last.outcome.kind = "throw" => FatalLoad(last)

\* C19: a getItem call hands reportError at most one message, none where
\* it returns an item, and one only where the reference is missing or the
\* existence check of the package's manifest failed.
C19_AtMostOneReport ==
    last.op = "getItem"
        => /\ Len(last.reports) <= 1
           /\ (last.outcome.kind = "return" /\ last.outcome.value # Undefined)
                 => last.reports = <<>>
           /\ last.reports # <<>> => (last.arg = Undefined \/ ExistenceCheckFailed(last))

\* C19's case: getItem reported a package not found, once, on a loader
\* whose cache holds a package.
C19_Witness ==
    /\ last.op = "getItem" /\ last.arg # Undefined
    /\ ExistenceCheckFailed(last) /\ Len(last.reports) = 1
    /\ DOMAIN cache # {}

Methods == {"getItem", "getPackage", "loadPackageIntoCache"}

\* C20: a call on one loader leaves the cache of the other as it was (and
\* so does constructing the second loader); the two caches share no
\* package; and a call answered from the cache got a package its own
\* loader's cache held.
C20_LoadersIsolated ==
    [][ /\ (last'.op \in Methods /\ last'.loader = 1) => other' = other
        /\ last'.loader = 2 => cache' = cache
        /\ other' # NoInstance
             => \A k \in DOMAIN cache', j \in DOMAIN other'.cache :
                    cache'[k].id # other'.cache[j].id
        /\ (last'.op \in Methods /\ ServedFromCache(last'))
             => LET own == IF last'.loader = 1 THEN cache ELSE other.cache
                IN  \E k \in DOMAIN own : own[k] = last'.docPackage ]_vars

\* C20's case: getPackage on the second loader loaded the manifest of f
\* into an instance of its own, the first loader's cache holding the
\* package it had loaded from that manifest before.
C20_Witness ==
    /\ last.op = "getPackage" /\ last.loader = 2
    /\ last.docPackage # Undefined /\ ~ServedFromCache(last)
    /\ \E k \in DOMAIN cache :
          /\ cache[k].source = last.docPackage.source
          /\ cache[k].id < last.docPackage.id
          /\ k = cachePackageName(last.arg)

=============================================================================
